---- MODULE Spec2Model ----
(***************************************************************************)
(* State-machine model of the client-side scripts of the csharp-portfolio  *)
(* Hugo theme:                                                             *)
(*   - ThemeToggle            (assets/js/theme-toggle.js)                  *)
(*   - ContactFormValidator   (assets/js/experience-calculator.js) and the *)
(*     form handlers of assets/js/accessibility.js                         *)
(*   - the mobile navigation  (assets/js/navigation.js) and the focus      *)
(*     management of assets/js/accessibility.js                            *)
(* Every browser task (an event handler, a timer callback, the             *)
(* continuation of an await) is one action.                                *)
(***************************************************************************)
EXTENDS Integers, Sequences, FiniteSets, TLC

\* ------------------------------------------------------------------------
\* Bounds
\* ------------------------------------------------------------------------
\* number of [data-theme-toggle] controls on the page
NumButtons == 2
\* number of .mobile-nav-link elements in the mobile menu
NumLinks == 2
\* cap on the pending focus timers of the menu toggle
MaxFocusTimers == 2

\* ------------------------------------------------------------------------
\* Values shared by the components
\* ------------------------------------------------------------------------
\* JavaScript null (absent attribute, absent storage entry)
None == "null"
\* marker for "the call threw"
Thrown == "<thrown>"

\* ========================================================================
\* ThemeToggle (theme-toggle.js)
\* ========================================================================
VARIABLES
    localStorage,   \* browser local storage: key -> value or None
    storageAccess,  \* "ok" | "writeFails" (setItem throws) | "denied" (getItem and setItem throw)
    systemDark,     \* matchMedia("(prefers-color-scheme: dark)").matches
    constructed,    \* new ThemeToggle() has run (listeners registered)
    dataTheme,      \* data-theme attribute of the root element, None when absent
    ariaPressed,    \* aria-pressed of each toggle control
    ariaLabel,      \* aria-label of each toggle control
    btnClass,       \* which of theme-toggle--dark / theme-toggle--light each control carries
    lastOp,         \* the task that ran last
    lastArg,        \* its argument
    lastApplied,    \* themes passed to applyTheme by the last task, in order
    lastEvents,     \* themechange events dispatched by the last task, in order
    writes,         \* every <<key, value>> ever passed to a successful setItem
    uncaught        \* the last task let an exception escape to its caller

themeVars == <<localStorage, storageAccess, systemDark, constructed, dataTheme,
               ariaPressed, ariaLabel, btnClass, lastOp, lastArg, lastApplied,
               lastEvents, writes, uncaught>>

\* ---- state of the contact form -------------------------------------------
VARIABLES
    fieldValue,       \* value of each input, a sequence of characters
    inputClass,       \* classes "error" / "valid" of each input
    errorText,        \* textContent of each #<id>-error element
    errorClass,       \* classes of each #<id>-error element besides error-message
    ariaInvalid,      \* aria-invalid of each input
    formStatusText,   \* textContent of #formStatus
    formStatusClass,  \* classes of #formStatus besides form-status
    isSubmitting,     \* ContactFormValidator.isSubmitting
    buttonDisabled,   \* .contact-submit-btn disabled
    buttonLabel,      \* .contact-submit-btn innerHTML
    submitPc,         \* where the async submitForm stands: "idle", "fetch1", "fetch2", "threw"
    originalText,     \* originalText of the submitForm call in progress (or of the last one)
    requests,         \* fetch calls of the current (or last) submission, with their outcomes
    mailtoOpened,     \* that submission set window.location.href to the mailto link
    hideTimers,       \* pending 5 s timers of accessibility.js showFormStatus
    accFirst,         \* the listeners of accessibility.js were registered before ContactFormValidator's
    missing,          \* elements absent from the page
    formLastOp        \* the task that ran last

formVars == <<fieldValue, inputClass, errorText, errorClass, ariaInvalid,
              formStatusText, formStatusClass, isSubmitting, buttonDisabled,
              buttonLabel, submitPc, originalText, requests, mailtoOpened, hideTimers,
              accFirst, missing, formLastOp>>

\* ---- state of the mobile navigation -------------------------------------
VARIABLES
    ariaExpanded,   \* aria-expanded of .mobile-nav-toggle
    navAriaHidden,  \* aria-hidden of .mobile-navigation
    bodyOverflow,   \* document.body.style.overflow
    bodyNavOpen,    \* body carries the class mobile-nav-open
    isAnimating,    \* isAnimating of initMobileNavigation; its 300 ms timer is pending while TRUE
    focusOld,       \* pending 100 ms focus timers set no later than the start of the running animation
    focusNew,       \* pending 100 ms focus timers set after it
    activeElement,  \* document.activeElement: Body, Toggle or the index of a menu link
    accNavFirst,    \* the click listener of accessibility.js was registered before those of navigation.js
    wideViewport,   \* window.innerWidth >= 768
    resizeTimer,    \* the debounced 100 ms timer of the resize listener: "none", "old" or "new" as for the focus timers
    orientOld,      \* pending 100 ms timers of the orientationchange listener, as focusOld
    orientNew,      \* and as focusNew
    navLastOp       \* the task that ran last

navVars == <<ariaExpanded, navAriaHidden, bodyOverflow, bodyNavOpen, isAnimating,
             focusOld, focusNew, activeElement, accNavFirst, wideViewport,
             resizeTimer, orientOld, orientNew, navLastOp>>

\* ---- state of the service worker -----------------------------------------
VARIABLES
    cacheNames,     \* names of the caches of the origin's CacheStorage
    cacheEntries,   \* request URLs stored in each cache
    swState,        \* "installing", "adding", "installed", "activating", "activated", "redundant"
    toDelete,       \* caches the activate handler has asked to delete and that are not deleted yet
    deletedCaches,  \* every cache name the worker has passed to caches.delete
    fetchEvents,    \* the fetch events being handled, one record per slot
    pendingPuts     \* URLs whose caches.open(CACHE_NAME).then(cache.put) has not run yet

swVars == <<cacheNames, cacheEntries, swState, toDelete, deletedCaches,
            fetchEvents, pendingPuts>>

\* ---- state of a [data-typing-text] element and its typing animation ------
VARIABLES
    typingKind,           \* class of the element: "code-method", "execution-output" or "default"
    hasExecutionSection,  \* the element has a .hero-execution ancestor
    hasCursor,            \* a .hero-cursor element exists next to the element
    prefersReducedMotion, \* matchMedia("(prefers-reduced-motion: reduce)").matches
    bodyReducedMotion,    \* body carries the class reduced-motion
    accessibilityReady,   \* initReducedMotion has run
    typingReady,          \* initTypingAnimations has run
    observing,            \* the IntersectionObserver observes the element
    typingText,           \* number of characters of data-typing-text the element shows
    executionStage,       \* "none", "delay" (executionDelay timer pending), "typing" (800 ms timer pending), "done"
    executionShown,       \* .hero-execution carries the class show
    animation,            \* the TypingAnimation instance: constructed, currentIndex, isDeleting, isComplete, loop
    startTimers,          \* pending delay timers of init
    restartTimers,        \* pending delay timers of start()
    stopped,              \* stop() was the last method called on the instance
    typeTimers,           \* pending timers whose callback is type()
    loopTimers,           \* pending deleteDelay timers
    cursorTimers,         \* pending 2 s timers that hide the cursor
    cursorVisible,        \* .hero-cursor carries the class visible
    cursorOpacity,        \* style.opacity of .hero-cursor
    typingUncaught,       \* a callback of the typing module threw
    typingLastOp          \* the task that ran last

typingVars == <<typingKind, hasExecutionSection, hasCursor, prefersReducedMotion,
                bodyReducedMotion, accessibilityReady, typingReady, observing,
                typingText, executionStage, executionShown, animation, startTimers,
                restartTimers, stopped,
                typeTimers, loopTimers, cursorTimers, cursorVisible, cursorOpacity,
                typingUncaught, typingLastOp>>

\* ---- state of the screen-reader live region --------------------------------
VARIABLES
    liveText,       \* textContent of #live-region, "" when empty
    liveOwner,      \* number of the announcement that wrote liveText, 0 when the region is empty
    clearTimers,    \* pending 1 s clear timers, oldest first, each with the number of its announcement
    announced,      \* announcements made so far
    announceLastOp  \* the task that ran last

announceVars == <<liveText, liveOwner, clearTimers, announced, announceLastOp>>

Buttons == 1..NumButtons

storageKey == "csharp-portfolio-theme"
\* a key of local storage that does not belong to the theme manager
otherKey == "other-key"
StorageKeys == {storageKey, otherKey}

LIGHT == "light"
DARK == "dark"
AUTO == "auto"
themes == {LIGHT, DARK, AUTO}

\* arguments a caller may hand to setTheme: the three themes and one other string
SetThemeArgs == themes \cup {"sepia"}

BoolStr(b) == IF b THEN "true" ELSE "false"

\* The part of the page a ThemeToggle task reads and writes, as one record, so
\* that the methods compose in the order the code calls them.
ThemeState ==
    [root |-> dataTheme, pressed |-> ariaPressed, label |-> ariaLabel,
     cls |-> btnClass, ls |-> localStorage, ap |-> <<>>, ev |-> <<>>,
     wr |-> writes, exc |-> FALSE]

\* localStorage.getItem(key)
getItem(s, key) == IF storageAccess = "denied" THEN Thrown ELSE s.ls[key]

\* localStorage.setItem(key, value)
setItem(s, key, value) ==
    IF storageAccess = "ok"
    THEN [s EXCEPT !.ls[key] = value, !.wr = @ \cup {<<key, value>>}]
    ELSE [s EXCEPT !.exc = TRUE]

getStoredTheme_NoCatch(s) == getItem(s, storageKey)

getStoredTheme(s) ==
    LET r == getItem(s, storageKey)
    IN IF r = Thrown THEN None ELSE r

storeTheme(s, theme) ==
    LET r == setItem(s, storageKey, theme)
    IN IF r.exc THEN s ELSE r

getSystemTheme == IF systemDark THEN DARK ELSE LIGHT

updateButtonAria(s, button, theme) ==
    LET isDark == theme = DARK
    IN [s EXCEPT !.pressed[button] = BoolStr(isDark),
                 !.label[button] = IF isDark THEN "Switch to light theme"
                                             ELSE "Switch to dark theme"]

updateButtonVisual(s, button, theme) ==
    LET isDark == theme = DARK
    IN [s EXCEPT !.cls[button] = IF isDark THEN "theme-toggle--dark"
                                           ELSE "theme-toggle--light"]

updateToggleButtons(s, theme) ==
    LET forEach[n \in 0..NumButtons] ==
            IF n = 0 THEN s
            ELSE updateButtonVisual(updateButtonAria(forEach[n - 1], n, theme), n, theme)
    IN forEach[NumButtons]

\* document.dispatchEvent(themechange): the listeners run synchronously, so the
\* event is recorded with the page state they observe.
dispatchThemeChangeEvent(s, theme) ==
    [s EXCEPT !.ev = Append(@, [theme |-> theme, root |-> s.root, pressed |-> s.pressed])]

applyTheme_DispatchFirst(s, theme) ==
    LET s0 == dispatchThemeChangeEvent([s EXCEPT !.ap = Append(@, theme)], theme)
        s1 == [s0 EXCEPT !.root = None]
        s2 == IF theme = AUTO THEN s1 ELSE [s1 EXCEPT !.root = theme]
    IN updateToggleButtons(s2, theme)

applyTheme(s, theme) ==
    LET s0 == [s EXCEPT !.ap = Append(@, theme)]
        s1 == [s0 EXCEPT !.root = None]
        s2 == IF theme = AUTO THEN s1 ELSE [s1 EXCEPT !.root = theme]
        s3 == updateToggleButtons(s2, theme)
    IN dispatchThemeChangeEvent(s3, theme)

getCurrentTheme(s) == IF s.root # None THEN s.root ELSE getSystemTheme

setInitialTheme(s) ==
    LET storedTheme == getStoredTheme(s)
        systemTheme == getSystemTheme
    IN IF storedTheme = Thrown THEN [s EXCEPT !.exc = TRUE]
       ELSE IF storedTheme # None THEN applyTheme(s, storedTheme)
       ELSE storeTheme(applyTheme(s, systemTheme), systemTheme)

toggle_NoFlip(s) ==
    LET newTheme == getCurrentTheme(s)
    IN storeTheme(applyTheme(s, newTheme), newTheme)

toggle(s) ==
    LET currentTheme == getCurrentTheme(s)
        newTheme == IF currentTheme = LIGHT THEN DARK ELSE LIGHT
    IN storeTheme(applyTheme(s, newTheme), newTheme)

setTheme_Unchecked(s, theme) == storeTheme(applyTheme(s, theme), theme)

setTheme(s, theme) ==
    IF theme \in themes
    THEN storeTheme(applyTheme(s, theme), theme)
    ELSE s

handleSystemThemeChange_Always(s, matches) ==
    applyTheme(s, IF matches THEN DARK ELSE LIGHT)

handleSystemThemeChange_OnlyAuto(s, matches) ==
    LET storedTheme == getStoredTheme(s)
    IN IF storedTheme = AUTO
       THEN applyTheme(s, IF matches THEN DARK ELSE LIGHT)
       ELSE s

handleSystemThemeChange(s, matches) ==
    LET storedTheme == getStoredTheme(s)
    IN IF storedTheme = Thrown THEN [s EXCEPT !.exc = TRUE]
       ELSE IF storedTheme = None \/ storedTheme = AUTO
       THEN applyTheme(s, IF matches THEN DARK ELSE LIGHT)
       ELSE s

initToggleButtons(s) ==
    LET forEach[n \in 0..NumButtons] ==
            IF n = 0 THEN s
            ELSE updateButtonAria(forEach[n - 1], n, getCurrentTheme(forEach[n - 1]))
    IN forEach[NumButtons]

\* ThemeToggle.init, up to the registration of the listeners
init(s) ==
    LET s1 == setInitialTheme(s)
    IN IF s1.exc THEN s1 ELSE initToggleButtons(s1)

\* accessibility.js: the MutationObserver on the first toggle control rewrites
\* its aria-label from its class.
enhanceThemeToggle(s) ==
    IF NumButtons = 0 THEN s
    ELSE [s EXCEPT !.label[1] = IF s.cls[1] = "theme-toggle--dark"
                                THEN "Switch to light theme"
                                ELSE "Switch to dark theme"]

\* The observer callback runs at the end of a task that changed the class
\* attribute of the first control.
Observed(s) ==
    IF NumButtons > 0 /\ s.cls[1] # btnClass[1] THEN enhanceThemeToggle(s) ELSE s

\* The state a finished task leaves behind.
ThemeCommit(s, op, arg) ==
    /\ dataTheme' = s.root
    /\ ariaPressed' = s.pressed
    /\ ariaLabel' = s.label
    /\ btnClass' = s.cls
    /\ localStorage' = s.ls
    /\ lastApplied' = s.ap
    /\ lastEvents' = s.ev
    /\ writes' = s.wr
    /\ uncaught' = s.exc
    /\ lastOp' = op
    /\ lastArg' = arg
    /\ UNCHANGED <<formVars, navVars, swVars, typingVars, announceVars>>

ThemeInit ==
    /\ storageAccess \in {"ok", "writeFails", "denied"}
    /\ localStorage \in [StorageKeys -> themes \cup {None}]
    /\ localStorage[otherKey] = None
    /\ storageAccess = "denied" => localStorage[storageKey] = None
    /\ systemDark \in BOOLEAN
    /\ constructed = FALSE
    /\ dataTheme = None
    /\ ariaPressed = [b \in Buttons |-> None]
    /\ ariaLabel = [b \in Buttons |-> None]
    /\ btnClass = [b \in Buttons |-> None]
    /\ lastOp = "none"
    /\ lastArg = None
    /\ lastApplied = <<>>
    /\ lastEvents = <<>>
    /\ writes = {}
    /\ uncaught = FALSE

\* new ThemeToggle(), run once when the DOM is ready.  Whether the observer of
\* accessibility.js is already registered depends on the script order.
NewThemeToggle ==
    /\ ~constructed
    /\ \E observerRegistered \in BOOLEAN :
          LET s == init(ThemeState)
          IN /\ ThemeCommit(IF observerRegistered THEN Observed(s) ELSE s, "init", None)
             /\ constructed' = ~s.exc
    /\ UNCHANGED <<storageAccess, systemDark>>

\* click on a [data-theme-toggle] control
ToggleClick ==
    /\ constructed
    /\ \E button \in Buttons :
          ThemeCommit(Observed(toggle(ThemeState)), "click", button)
    /\ UNCHANGED <<storageAccess, systemDark, constructed>>

KeyNames == {"T", "t", "Escape"}

\* document keydown listener of initKeyboardShortcuts
ThemeKeyDown ==
    /\ constructed
    /\ \E ctrlKey \in BOOLEAN, shiftKey \in BOOLEAN, key \in KeyNames :
          IF ctrlKey /\ shiftKey /\ key = "T"
          THEN ThemeCommit(Observed(toggle(ThemeState)), "shortcut", key)
          ELSE ThemeCommit(ThemeState, "key", key)
    /\ UNCHANGED <<storageAccess, systemDark, constructed>>

\* window.themeToggle.setTheme(theme)
SetThemeCall ==
    /\ constructed
    /\ \E theme \in SetThemeArgs :
          ThemeCommit(Observed(setTheme(ThemeState, theme)), "setTheme", theme)
    /\ UNCHANGED <<storageAccess, systemDark, constructed>>

\* the OS color scheme changes; the media query listener runs
SystemThemeChange ==
    /\ constructed
    /\ systemDark' = ~systemDark
    /\ ThemeCommit(Observed(handleSystemThemeChange(ThemeState, systemDark')),
                   "osChange", BoolStr(systemDark'))
    /\ UNCHANGED <<storageAccess, constructed>>

ThemeNext ==
    \/ NewThemeToggle
    \/ ToggleClick
    \/ ThemeKeyDown
    \/ SetThemeCall
    \/ SystemThemeChange

\* ========================================================================
\* Contact form: ContactFormValidator (experience-calculator.js) and
\* initFormAccessibility (accessibility.js) on the form of content/contact.md
\* ========================================================================
\* cap on the pending status-hide timers
MaxHideTimers == 1
\* fetch events the service worker handles at the same time
MaxFetches == 2
\* pending 100 ms timers of the orientationchange listener
MaxOrientTimers == 1
\* timers of a typing animation pending when start() is called
MaxTypingTimers == 2
\* announcements made in a run
MaxAnnouncements == 8
\* characters of the data-typing-text attribute
TextLen == 2

FieldOrder == <<"name", "email", "subject", "message">>
Fields == {FieldOrder[i] : i \in 1..Len(FieldOrder)}

\* the attributes of the inputs in content/contact.md; 0 stands for an absent
\* minlength / maxlength
FieldAttrs ==
    [name    |-> [type |-> "text",     required |-> TRUE, minlength |-> 2,  maxlength |-> 100,  describedby |-> None],
     email   |-> [type |-> "email",    required |-> TRUE, minlength |-> 0,  maxlength |-> 0,    describedby |-> None],
     subject |-> [type |-> "text",     required |-> TRUE, minlength |-> 5,  maxlength |-> 200,  describedby |-> None],
     message |-> [type |-> "textarea", required |-> TRUE, minlength |-> 10, maxlength |-> 2000, describedby |-> None]]

\* sample inputs: text the user may have typed into each field
Chars(n) == [i \in 1..n |-> "x"]
SampleValues ==
    [name    |-> {<<>>, <<" ", "J">>, <<"J", "o">>},
     email   |-> {<<"a", "@", "b">>, <<"a", "@", "b", ".", "c">>},
     subject |-> {<<>>, Chars(5)},
     message |-> {<<" ", " ">>, Chars(10)}]

IsSpace(c) == c = " "

\* String.prototype.trim
RECURSIVE TrimStart(_)
TrimStart(v) == IF v # <<>> /\ IsSpace(Head(v)) THEN TrimStart(Tail(v)) ELSE v
RECURSIVE TrimEnd(_)
TrimEnd(v) == IF v # <<>> /\ IsSpace(v[Len(v)]) THEN TrimEnd(SubSeq(v, 1, Len(v) - 1)) ELSE v
trim(v) == TrimEnd(TrimStart(v))

\* /^[^\s@]+@[^\s@]+\.[^\s@]+$/ : one "@", no white space, text before the "@",
\* and after it a "." with text on both sides
isValidEmail(email) ==
    /\ \A i \in 1..Len(email) : ~IsSpace(email[i])
    /\ Cardinality({i \in 1..Len(email) : email[i] = "@"}) = 1
    /\ \E i \in 2..Len(email) :
          /\ email[i] = "@"
          /\ \E j \in (i + 2)..(Len(email) - 1) : email[j] = "."

capitalize(str) ==
    CASE str = "name" -> "Name"
      [] str = "email" -> "Email"
      [] str = "subject" -> "Subject"
      [] str = "message" -> "Message"

FormState ==
    [val |-> fieldValue, icls |-> inputClass, etext |-> errorText,
     ecls |-> errorClass, ainv |-> ariaInvalid, stext |-> formStatusText,
     scls |-> formStatusClass, sub |-> isSubmitting, bdis |-> buttonDisabled,
     blabel |-> buttonLabel, pc |-> submitPc, orig |-> originalText, req |-> requests,
     mailto |-> mailtoOpened, timers |-> hideTimers, ret |-> TRUE]

HasElement(e) == e \notin missing
ErrorElement(f) == <<f, "error">>

\* ---- ContactFormValidator ----------------------------------------------
showFormStatus(s, message, type) ==
    IF HasElement("formStatus")
    THEN [s EXCEPT !.stext = message, !.scls = {"show", type}]
    ELSE s

hideFormStatus(s) ==
    IF HasElement("formStatus")
    THEN [s EXCEPT !.stext = "", !.scls = {}]
    ELSE s

clearFieldError(s, f) ==
    LET s1 == IF HasElement(ErrorElement(f))
              THEN [s EXCEPT !.etext[f] = <<>>,
                             !.ecls[f] = @ \ {"show", "required-error", "email-error", "length-error"}]
              ELSE s
    IN [s1 EXCEPT !.icls[f] = @ \ {"error"}]

showFieldError(s, f, message, errClass) ==
    [s EXCEPT !.icls[f] = (@ \cup {"error"}) \ {"valid"},
              !.etext[f] = message,
              !.ecls[f] = @ \cup {"show", errClass}]

\* the rules validateForm passes for each field
FormRules ==
    [name    |-> [required |-> TRUE, type |-> None,    minLength |-> 2,  maxLength |-> 0],
     email   |-> [required |-> TRUE, type |-> "email", minLength |-> 0,  maxLength |-> 0],
     subject |-> [required |-> TRUE, type |-> None,    minLength |-> 5,  maxLength |-> 0],
     message |-> [required |-> TRUE, type |-> None,    minLength |-> 10, maxLength |-> 0]]

\* validateField(input, rules); the result is in .ret
validateField_SkipRequired(s, f, rules) ==
    LET value == trim(s.val[f])
        s1 == clearFieldError(s, f)
    IN IF value = <<>> THEN [s1 EXCEPT !.ret = TRUE]
       ELSE [s1 EXCEPT !.icls[f] = @ \cup {"valid"}, !.ret = TRUE]

validateField(s, f, rules) ==
    LET value == trim(s.val[f])
        s1 == clearFieldError(s, f)
    IN IF ~HasElement(f) THEN [s EXCEPT !.ret = TRUE]
       ELSE IF ~HasElement(ErrorElement(f)) THEN [s EXCEPT !.ret = TRUE]
       ELSE IF rules.required /\ value = <<>>
            THEN [showFieldError(s1, f, <<capitalize(f), "is required">>, "required-error")
                    EXCEPT !.ret = FALSE]
       ELSE IF value = <<>> /\ ~rules.required
            THEN [s1 EXCEPT !.ret = TRUE]
       ELSE IF rules.type = "email" /\ ~isValidEmail(value)
            THEN [showFieldError(s1, f, <<"Invalid email format">>, "email-error")
                    EXCEPT !.ret = FALSE]
       ELSE IF rules.minLength # 0 /\ Len(value) < rules.minLength
            THEN [showFieldError(s1, f, <<capitalize(f), "must be at least", ToString(rules.minLength), "characters">>, "length-error")
                    EXCEPT !.ret = FALSE]
       ELSE IF rules.maxLength # 0 /\ Len(value) > rules.maxLength
            THEN [showFieldError(s1, f, <<capitalize(f), "must be no more than", ToString(rules.maxLength), "characters">>, "length-error")
                    EXCEPT !.ret = FALSE]
       ELSE [s1 EXCEPT !.icls[f] = @ \cup {"valid"}, !.ret = TRUE]

\* validateForm: every field is validated, the result is the conjunction
validateForm(s) ==
    LET forEach[n \in 0..Len(FieldOrder)] ==
            IF n = 0 THEN [s EXCEPT !.ret = TRUE]
            ELSE LET prev == forEach[n - 1]
                     r == validateField(prev, FieldOrder[n], FormRules[FieldOrder[n]])
                 IN [r EXCEPT !.ret = prev.ret /\ r.ret]
    IN forEach[Len(FieldOrder)]

handleReset(s) ==
    LET s1 == [s EXCEPT !.etext = [f \in Fields |-> IF HasElement(ErrorElement(f)) THEN <<>> ELSE @[f]],
                        !.ecls = [f \in Fields |-> IF HasElement(ErrorElement(f)) THEN @[f] \ {"show"} ELSE @[f]]]
        s2 == hideFormStatus(s1)
    IN [s2 EXCEPT !.icls = [f \in Fields |-> IF HasElement(f) THEN @[f] \ {"error", "valid"} ELSE @[f]]]

\* form.reset(): the values return to their defaults and the reset event runs
\* handleReset
formReset(s) ==
    handleReset([s EXCEPT !.val = [f \in Fields |-> <<>>]])

\* submitForm after submitFormData has returned: success status, reset, finally
submitFormFinish_NoFinally(s) ==
    LET s1 == showFormStatus(s, "Message sent successfully! I'll get back to you soon.", "success")
        s2 == handleReset(formReset(s1))
    IN [s2 EXCEPT !.pc = "idle"]

submitFormFinish(s) ==
    LET s1 == showFormStatus(s, "Message sent successfully! I'll get back to you soon.", "success")
        s2 == handleReset(formReset(s1))
    IN [s2 EXCEPT !.sub = FALSE, !.bdis = FALSE, !.blabel = s.orig, !.pc = "idle"]

Services == <<"Formspree", "Netlify Forms">>
Outcomes == {"ok", "notok", "throw"}

fetch(s, n) == [s EXCEPT !.req = Append(@, [service |-> Services[n], outcome |-> "pending"])]

fallbackToMailto(s) == [s EXCEPT !.mailto = TRUE]

\* submitFormData, resumed when the fetch to service n has settled
submitFormData_NoSecondTry(s, n, outcome) ==
    LET s1 == [s EXCEPT !.req[n].outcome = outcome]
    IN IF outcome = "ok" THEN submitFormFinish(s1)
       ELSE submitFormFinish(fallbackToMailto(s1))

submitFormData(s, n, outcome) ==
    LET s1 == [s EXCEPT !.req[n].outcome = outcome]
    IN IF outcome = "ok" THEN submitFormFinish(s1)
       ELSE IF n < Len(Services)
            THEN [fetch(s1, n + 1) EXCEPT !.pc = IF n + 1 = 1 THEN "fetch1" ELSE "fetch2"]
       ELSE submitFormFinish(fallbackToMailto(s1))

\* submitForm up to its first await
submitForm(s) ==
    LET s1 == [s EXCEPT !.sub = TRUE, !.req = <<>>, !.mailto = FALSE]
    IN IF ~HasElement("submitButton") THEN [s1 EXCEPT !.pc = "threw"]
       ELSE LET s2 == [s1 EXCEPT !.orig = s.blabel, !.bdis = TRUE, !.blabel = "Sending"]
                s3 == showFormStatus(s2, "Sending your message...", "loading")
            IN [fetch(s3, 1) EXCEPT !.pc = "fetch1"]

handleSubmit_NoGuard(s) ==
    LET v == validateForm(s)
    IN IF v.ret THEN submitForm(v)
       ELSE showFormStatus(v, "Please fix the validation errors above.", "error")

handleSubmit(s) ==
    IF s.sub THEN s
    ELSE LET v == validateForm(s)
         IN IF v.ret THEN submitForm(v)
            ELSE showFormStatus(v, "Please fix the validation errors above.", "error")

\* ---- accessibility.js ---------------------------------------------------
accShowFormStatus(s, type, message) ==
    IF HasElement("formStatus")
    THEN [s EXCEPT !.scls = {type, "show"}, !.stext = message,
                   !.timers = IF type = "success" THEN @ + 1 ELSE @]
    ELSE s

accValidateField(s, f) ==
    LET value == trim(s.val[f])
        a == FieldAttrs[f]
        isRequired == a.required
        errorKind ==
            IF isRequired /\ value = <<>> THEN "required"
            ELSE IF a.type = "email" /\ value # <<>>
                 THEN (IF ~isValidEmail(value) THEN "email" ELSE "")
            ELSE IF a.minlength # 0 /\ Len(value) < a.minlength THEN "length"
            ELSE ""
        isValid == errorKind = ""
        s1 == [s EXCEPT !.ainv[f] = BoolStr(~isValid),
                        !.icls[f] = IF isValid THEN @ \ {"error"} ELSE @ \cup {"error"}]
        s2 == IF a.describedby # None /\ HasElement(a.describedby)
              THEN [s1 EXCEPT !.etext[f] = IF isValid THEN <<>> ELSE <<errorKind>>,
                              !.ecls[f] = IF isValid THEN {}
                                          ELSE {"show", IF a.type = "email" THEN "email-error"
                                                        ELSE IF isRequired /\ value = <<>> THEN "required-error"
                                                        ELSE "length-error"}]
              ELSE s1
    IN [s2 EXCEPT !.ret = isValid]

accHandleSubmit(s) ==
    LET forEach[n \in 0..Len(FieldOrder)] ==
            IF n = 0 THEN [s EXCEPT !.ret = TRUE]
            ELSE LET prev == forEach[n - 1]
                     r == accValidateField(prev, FieldOrder[n])
                 IN [r EXCEPT !.ret = prev.ret /\ r.ret]
        v == forEach[Len(FieldOrder)]
    IN IF v.ret THEN accShowFormStatus(v, "success", "Message sent successfully!")
       ELSE accShowFormStatus(v, "error", "Please correct the errors above.")

accHandleInput(s, f) ==
    IF "error" \in s.icls[f]
    THEN LET s1 == [s EXCEPT !.icls[f] = @ \ {"error"}, !.ainv[f] = "false"]
             a == FieldAttrs[f]
         IN IF a.describedby # None /\ HasElement(a.describedby)
            THEN [s1 EXCEPT !.etext[f] = <<>>, !.ecls[f] = @ \ {"show"}]
            ELSE s1
    ELSE s

\* ---- tasks --------------------------------------------------------------
FormCommit(s, op) ==
    /\ fieldValue' = s.val
    /\ inputClass' = s.icls
    /\ errorText' = s.etext
    /\ errorClass' = s.ecls
    /\ ariaInvalid' = s.ainv
    /\ formStatusText' = s.stext
    /\ formStatusClass' = s.scls
    /\ isSubmitting' = s.sub
    /\ buttonDisabled' = s.bdis
    /\ buttonLabel' = s.blabel
    /\ submitPc' = s.pc
    /\ originalText' = s.orig
    /\ requests' = s.req
    /\ mailtoOpened' = s.mailto
    /\ hideTimers' = s.timers
    /\ formLastOp' = op
    /\ UNCHANGED <<accFirst, missing>>
    /\ UNCHANGED <<themeVars, navVars, swVars, typingVars, announceVars>>

\* the form and its scripts right after the page has loaded, whatever the fields hold
FormLoaded ==
    /\ inputClass = [f \in Fields |-> {}]
    /\ errorText = [f \in Fields |-> <<>>]
    /\ errorClass = [f \in Fields |-> {}]
    /\ ariaInvalid = [f \in Fields |-> None]
    /\ formStatusText = ""
    /\ formStatusClass = {}
    /\ isSubmitting = FALSE
    /\ buttonDisabled = FALSE
    /\ buttonLabel = "SubmitMessage"
    /\ submitPc = "idle"
    /\ originalText = None
    /\ requests = <<>>
    /\ mailtoOpened = FALSE
    /\ hideTimers = 0
    /\ accFirst \in BOOLEAN
    /\ missing \in {{}, {"submitButton"}}
    /\ formLastOp = "none"

FormInit ==
    /\ fieldValue = [f \in Fields |-> <<>>]
    /\ FormLoaded

\* the page is shown with the values the user left in the fields
FormFilledIn ==
    /\ \E n \in SampleValues.name : \E e \in SampleValues.email :
       \E su \in SampleValues.subject : \E m \in SampleValues.message :
          fieldValue = [name |-> n, email |-> e, subject |-> su, message |-> m]
    /\ FormLoaded

\* the user edits a field: the input event runs clearFieldError and the input
\* listener of accessibility.js
InputEvent ==
    \E f \in Fields : \E v \in SampleValues[f] :
        /\ HasElement("contactForm") /\ HasElement(f)
        /\ v # fieldValue[f]
        /\ LET s == [FormState EXCEPT !.val[f] = v]
           IN FormCommit(IF accFirst THEN clearFieldError(accHandleInput(s, f), f)
                         ELSE accHandleInput(clearFieldError(s, f), f), "other")

\* a submit event reaches the form: both submit listeners run
SubmitEvent ==
    LET s == IF accFirst THEN handleSubmit(accHandleSubmit(FormState))
             ELSE accHandleSubmit(handleSubmit(FormState))
    IN /\ HasElement("contactForm")
       /\ s.timers <= MaxHideTimers
       /\ FormCommit(s, "submit")

\* the reset button
ResetEvent ==
    /\ HasElement("contactForm")
    /\ FormCommit(formReset(FormState), "other")

\* the pending fetch settles and the async functions resume
FetchSettles ==
    /\ submitPc \in {"fetch1", "fetch2"}
    /\ \E outcome \in Outcomes :
          FormCommit(submitFormData(FormState, IF submitPc = "fetch1" THEN 1 ELSE 2, outcome), "settle")

\* a 5 s timer of accessibility.js showFormStatus fires
HideTimerFires ==
    /\ hideTimers > 0
    /\ FormCommit([FormState EXCEPT !.timers = @ - 1,
                                    !.scls = IF HasElement("formStatus") THEN @ \ {"show"} ELSE @],
                  "other")

FormNext ==
    \/ InputEvent
    \/ SubmitEvent
    \/ ResetEvent
    \/ FetchSettles
    \/ HideTimerFires

\* ========================================================================
\* Mobile navigation: initMobileNavigation / initFocusManagement
\* (navigation.js) and initFocusManagement (accessibility.js)
\* ========================================================================
Body == 0
Toggle == -1
Links == 1..NumLinks

NavState ==
    [exp |-> ariaExpanded, hid |-> navAriaHidden, ovf |-> bodyOverflow,
     open |-> bodyNavOpen, anim |-> isAnimating, fold |-> focusOld,
     fnew |-> focusNew, active |-> activeElement, started |-> FALSE,
     prevented |-> FALSE, wide |-> wideViewport, rsz |-> resizeTimer,
     oold |-> orientOld, onew |-> orientNew]

toggleMobileNav(s) ==
    IF s.anim THEN s
    ELSE LET newState == ~(s.exp = "true")
         IN [s EXCEPT !.anim = TRUE,
                      !.exp = BoolStr(newState),
                      !.hid = BoolStr(~newState),
                      !.ovf = IF newState THEN "hidden" ELSE "",
                      !.open = newState,
                      \* the 300 ms timer starts now: every focus timer already
                      \* pending, or set later in this task, fires before it
                      !.fold = s.fold + s.fnew,
                      !.fnew = 0,
                      !.rsz = IF s.rsz = "none" THEN "none" ELSE "old",
                      !.oold = s.oold + s.onew,
                      !.onew = 0,
                      !.started = TRUE]

closeMobileNav(s) ==
    IF s.anim THEN s
    ELSE [s EXCEPT !.exp = "false", !.hid = "true", !.ovf = "", !.open = FALSE]

\* the click listener on the toggle that both initFocusManagement functions
\* register: focus the first link 100 ms after a click that finds the menu open
focusOnOpen(s) ==
    IF s.exp = "true"
    THEN (IF s.started THEN [s EXCEPT !.fold = @ + 1] ELSE [s EXCEPT !.fnew = @ + 1])
    ELSE s

\* the click listeners of the toggle, in registration order
toggleClickListeners(s) ==
    IF accNavFirst
    THEN focusOnOpen(toggleMobileNav(focusOnOpen(s)))
    ELSE focusOnOpen(focusOnOpen(toggleMobileNav(s)))

\* keydown listener of accessibility.js on .mobile-navigation, Escape branch
accEscape(s) ==
    [toggleClickListeners(s) EXCEPT !.active = Toggle]

NavCommit(s, op) ==
    /\ ariaExpanded' = s.exp
    /\ navAriaHidden' = s.hid
    /\ bodyOverflow' = s.ovf
    /\ bodyNavOpen' = s.open
    /\ isAnimating' = s.anim
    /\ focusOld' = s.fold
    /\ focusNew' = s.fnew
    /\ activeElement' = s.active
    /\ wideViewport' = s.wide
    /\ resizeTimer' = s.rsz
    /\ orientOld' = s.oold
    /\ orientNew' = s.onew
    /\ navLastOp' = op
    /\ UNCHANGED accNavFirst
    /\ UNCHANGED <<themeVars, formVars, swVars, typingVars, announceVars>>

NavInit ==
    /\ ariaExpanded = "false"
    /\ navAriaHidden = "true"
    /\ bodyOverflow = ""
    /\ bodyNavOpen = FALSE
    /\ isAnimating = FALSE
    /\ focusOld = 0
    /\ focusNew = 0
    /\ activeElement = Body
    /\ accNavFirst \in BOOLEAN
    /\ wideViewport = FALSE
    /\ resizeTimer = "none"
    /\ orientOld = 0
    /\ orientNew = 0
    /\ navLastOp = "none"

\* the user clicks the menu toggle
NavToggleClick ==
    LET s == toggleClickListeners([NavState EXCEPT !.active = Toggle])
    IN /\ s.fold + s.fnew <= MaxFocusTimers
       /\ NavCommit(s, "toggleClick")

\* Escape is pressed: with focus on a menu link the keydown listeners of
\* .mobile-navigation run first, then the document listener of navigation.js
NavEscapeKey ==
    LET s == IF activeElement \in Links THEN accEscape(NavState) ELSE NavState
    IN /\ s.fold + s.fnew <= MaxFocusTimers
       /\ NavCommit(closeMobileNav(s), "escape")

\* a menu link is activated, by a click while the menu shows or by Enter / Space
\* while it has focus
NavLinkClick ==
    \E link \in Links :
        /\ ariaExpanded = "true" \/ activeElement = link
        /\ NavCommit(closeMobileNav([NavState EXCEPT !.active = link]), "linkClick")

\* a click outside the toggle and the menu
NavOutsideClick ==
    \E target \in {Body} :
        /\ target # Toggle /\ target \notin Links
        /\ NavCommit(closeMobileNav([NavState EXCEPT !.active = target]), "outsideClick")

\* the 300 ms timer of toggleMobileNav fires
AnimationTimerFires ==
    /\ isAnimating
    /\ focusOld = 0
    /\ resizeTimer # "old"
    /\ orientOld = 0
    /\ NavCommit([NavState EXCEPT !.anim = FALSE], "animationTimer")

\* a 100 ms focus timer fires, the oldest first
FocusTimerFires ==
    /\ focusOld + focusNew > 0
    /\ LET s == IF focusOld > 0 THEN [NavState EXCEPT !.fold = @ - 1]
                ELSE [NavState EXCEPT !.fnew = @ - 1]
       IN NavCommit(IF NumLinks > 0 THEN [s EXCEPT !.active = 1] ELSE s, "focusTimer")

\* the Tab branch of the keydown listener that both initFocusManagement
\* functions register on .mobile-navigation
focusTrap_NoPreventDefault(s, shiftKey) ==
    LET firstElement == 1
        lastElement == NumLinks
    IN IF shiftKey
       THEN (IF s.active = firstElement THEN [s EXCEPT !.active = lastElement] ELSE s)
       ELSE (IF s.active = lastElement THEN [s EXCEPT !.active = firstElement] ELSE s)

focusTrap(s, shiftKey) ==
    LET firstElement == 1
        lastElement == NumLinks
    IN IF shiftKey
       THEN (IF s.active = firstElement
             THEN [s EXCEPT !.prevented = TRUE, !.active = lastElement] ELSE s)
       ELSE (IF s.active = lastElement
             THEN [s EXCEPT !.prevented = TRUE, !.active = firstElement] ELSE s)

\* the browser's own handling of Tab from a menu link, run unless a listener
\* called preventDefault: the next (previous) link, or the element after
\* (before) the menu
tabDefault(s, shiftKey) ==
    IF s.prevented THEN s
    ELSE IF shiftKey
         THEN [s EXCEPT !.active = IF s.active > 1 THEN s.active - 1 ELSE Toggle]
         ELSE [s EXCEPT !.active = IF s.active < NumLinks THEN s.active + 1 ELSE Body]

\* Tab or Shift+Tab is pressed.  With focus on a menu link both trap listeners
\* run before the default action; elsewhere the browser moves focus to a
\* neighbouring element, which may be the first or the last menu link.
NavTabKey ==
    \E shiftKey \in BOOLEAN :
        IF activeElement \in Links
        THEN NavCommit(tabDefault(focusTrap(focusTrap(NavState, shiftKey), shiftKey), shiftKey),
                       IF shiftKey THEN "shiftTab" ELSE "tab")
        ELSE \E target \in {Body, Toggle, 1, NumLinks} :
                /\ target # activeElement
                /\ NavCommit([NavState EXCEPT !.active = target], "tabOutside")

\* handleTouchEnd: an upward swipe on the menu while aria-expanded is "true"
handleTouchEnd(s, swipeUp) ==
    IF swipeUp /\ s.exp = "true" THEN closeMobileNav(s) ELSE s

\* click listener of initSmoothScrolling on an a[href^="#"] link
anchorClick_RemovesClass(s, targetExists) ==
    IF targetExists
    THEN [s EXCEPT !.exp = "false", !.hid = "true", !.ovf = "", !.open = FALSE]
    ELSE s

anchorClick(s, targetExists) ==
    IF targetExists
    THEN [s EXCEPT !.exp = "false", !.hid = "true", !.ovf = ""]
    ELSE s

\* handleViewportChange of initMobileOptimizations
handleViewportChange(s) ==
    [s EXCEPT !.exp = "false", !.hid = "true", !.ovf = "", !.open = FALSE]

\* callback of the 100 ms timers of the resize and orientationchange listeners
closeIfWide(s) == IF s.wide THEN closeMobileNav(s) ELSE s

\* a touch on the menu ends
NavTouchEnd ==
    \E swipeUp \in BOOLEAN :
        /\ ariaExpanded = "true" \/ ~swipeUp
        /\ NavCommit(handleTouchEnd(NavState, swipeUp), IF swipeUp THEN "swipe" ELSE "touch")

\* a click on an anchor link, a menu link or a link elsewhere on the page:
\* the listeners on the link run in registration order, then the document
\* listener
NavAnchorClick ==
    \E targetExists \in BOOLEAN, where \in Links \cup {Body} :
        /\ where \in Links => (ariaExpanded = "true" \/ activeElement = where)
        /\ LET s == [NavState EXCEPT !.active = where]
           IN NavCommit(IF where \in Links
                        THEN anchorClick(closeMobileNav(s), targetExists)
                        ELSE closeMobileNav(anchorClick(s, targetExists)),
                        "anchorClick")

\* the window is resized: the pending timer is cleared and a new one is set
NavResize ==
    \E wide \in BOOLEAN :
        NavCommit([NavState EXCEPT !.wide = wide, !.rsz = "new"], "resize")

ResizeTimerFires ==
    /\ resizeTimer # "none"
    /\ NavCommit(closeIfWide([NavState EXCEPT !.rsz = "none"]), "resizeTimer")

\* the device is rotated: the listener of initMobileNavigation sets its timer,
\* then handleViewportChange runs
NavOrientationChange ==
    \E wide \in BOOLEAN :
        /\ orientOld + orientNew < MaxOrientTimers
        /\ NavCommit(handleViewportChange([NavState EXCEPT !.wide = wide, !.onew = @ + 1]),
                     "orientationChange")

OrientTimerFires ==
    /\ orientOld + orientNew > 0
    /\ LET s == IF orientOld > 0 THEN [NavState EXCEPT !.oold = @ - 1]
                ELSE [NavState EXCEPT !.onew = @ - 1]
       IN NavCommit(closeIfWide(s), "orientTimer")

\* the visual viewport is resized (the on-screen keyboard shows or hides); a
\* repeat of the event that finds the menu closed changes nothing
NavVisualViewportResize ==
    /\ ariaExpanded = "true" \/ bodyNavOpen \/ navLastOp # "viewportResize"
    /\ NavCommit(handleViewportChange(NavState), "viewportResize")

NavNext ==
    \/ NavToggleClick
    \/ NavEscapeKey
    \/ NavLinkClick
    \/ NavOutsideClick
    \/ AnimationTimerFires
    \/ FocusTimerFires
    \/ NavTabKey
    \/ NavTouchEnd
    \/ NavAnchorClick
    \/ NavResize
    \/ ResizeTimerFires
    \/ NavOrientationChange
    \/ OrientTimerFires
    \/ NavVisualViewportResize

\* ========================================================================
\* Service worker (TYPOGRAPHY.md, "Service Worker for C# Portfolio Theme")
\* ========================================================================
CACHE_NAME == "csharp-portfolio-v1"

STATIC_CACHE_URLS == {"/", "/css/main.css", "/js/bundle.js", "/offline.html"}

\* caches of earlier versions of the worker
OldCacheNames == {"csharp-portfolio-v0"}

CacheNames == OldCacheNames \cup {CACHE_NAME}

\* URLs of the requests the pages make
RequestUrls == {"/", "/about/", "/offline.html"}

Urls == STATIC_CACHE_URLS \cup RequestUrls

\* what the network returns: a response by status and type, or a rejection
ResponseKinds == {"200basic", "404basic", "200cors"}

FetchSlots == 1..MaxFetches

NoAnswer == [from |-> "none", what |-> ""]

IdleEvent ==
    [pc |-> "idle", url |-> "", method |-> "", sameOrigin |-> FALSE, mode |-> "",
     net |-> "none", answer |-> NoAnswer]

\* caches.match(request): a response stored under the URL in any cache
cachesMatch(url) == \E n \in cacheNames : url \in cacheEntries[n]

\* the early returns of the fetch listener: event.respondWith is called only
\* for same-origin GET requests
intercepts(method, sameOrigin) == method = "GET" /\ sameOrigin

\* the callback of caches.match(event.request)
onMatch_AlwaysNetwork(ev, cachedResponse) ==
    [ev EXCEPT !.pc = "fetch", !.net = "pending"]

onMatch(ev, cachedResponse) ==
    IF cachedResponse
    THEN [ev EXCEPT !.pc = "done", !.answer = [from |-> "cache", what |-> ev.url]]
    ELSE [ev EXCEPT !.pc = "fetch", !.net = "pending"]

\* a response is stored at runtime only with status 200 and type "basic"
cacheable_AnyResponse(kind) == TRUE

cacheable(kind) == kind = "200basic"

\* the .then callback of fetch(event.request): the response is passed on
onResponse(ev, kind) ==
    [ev EXCEPT !.pc = "done", !.net = kind, !.answer = [from |-> "network", what |-> kind]]

\* the .catch callback of fetch(event.request)
onNetworkError_NoFallback(ev) ==
    [ev EXCEPT !.pc = "done", !.net = "failed",
               !.answer = [from |-> "undefined", what |-> ""]]

onNetworkError(ev) ==
    IF ev.mode = "navigate"
    THEN [ev EXCEPT !.pc = "offline", !.net = "failed"]
    ELSE [ev EXCEPT !.pc = "done", !.net = "failed",
                    !.answer = [from |-> "undefined", what |-> ""]]

\* the callback of caches.match("/offline.html")
onOfflineMatch(ev, cachedResponse) ==
    IF cachedResponse
    THEN [ev EXCEPT !.pc = "done", !.answer = [from |-> "cache", what |-> "/offline.html"]]
    ELSE [ev EXCEPT !.pc = "done", !.answer = [from |-> "undefined", what |-> ""]]

\* the filter of the activate listener
staleCaches_All(names) == names

staleCaches(names) == {cacheName \in names : cacheName # CACHE_NAME}

SwInit ==
    /\ cacheNames \in SUBSET CacheNames
    /\ cacheEntries \in [CacheNames -> {{}, {"/about/"}}]
    /\ \A n \in CacheNames \ cacheNames : cacheEntries[n] = {}
    /\ swState = "installing"
    /\ toDelete = {}
    /\ deletedCaches = {}
    /\ fetchEvents = [i \in FetchSlots |-> IdleEvent]
    /\ pendingPuts = {}

SwUnchangedOthers == UNCHANGED <<themeVars, formVars, navVars, typingVars, announceVars>>

\* install: caches.open(CACHE_NAME) creates the cache when it does not exist
InstallOpens ==
    /\ swState = "installing"
    /\ swState' = "adding"
    /\ cacheNames' = cacheNames \cup {CACHE_NAME}
    /\ UNCHANGED <<cacheEntries, toDelete, deletedCaches, fetchEvents, pendingPuts>>
    /\ SwUnchangedOthers

\* install: cache.addAll stores every URL of the list or, when one of them
\* cannot be fetched, stores none and rejects, which fails the installation;
\* otherwise skipWaiting lets the worker go on to activation
InstallAddAll ==
    /\ swState = "adding"
    /\ \E allFetched \in BOOLEAN :
          IF allFetched
          THEN /\ cacheEntries' = [cacheEntries EXCEPT ![CACHE_NAME] = @ \cup STATIC_CACHE_URLS]
               /\ swState' = "installed"
          ELSE /\ cacheEntries' = cacheEntries
               /\ swState' = "redundant"
    /\ UNCHANGED <<cacheNames, toDelete, deletedCaches, fetchEvents, pendingPuts>>
    /\ SwUnchangedOthers

\* activate: caches.keys() resolves and caches.delete is called on each
\* cache the filter keeps
ActivateKeys ==
    /\ swState = "installed"
    /\ swState' = "activating"
    /\ toDelete' = staleCaches(cacheNames)
    /\ deletedCaches' = deletedCaches \cup staleCaches(cacheNames)
    /\ UNCHANGED <<cacheNames, cacheEntries, fetchEvents, pendingPuts>>
    /\ SwUnchangedOthers

\* one caches.delete takes effect
ActivateDeletes ==
    /\ swState = "activating"
    /\ \E cacheName \in toDelete :
          /\ toDelete' = toDelete \ {cacheName}
          /\ cacheNames' = cacheNames \ {cacheName}
          /\ cacheEntries' = [cacheEntries EXCEPT ![cacheName] = {}]
    /\ UNCHANGED <<swState, deletedCaches, fetchEvents, pendingPuts>>
    /\ SwUnchangedOthers

\* Promise.all has resolved: clients.claim, the activate step is complete
ActivateClaims ==
    /\ swState = "activating"
    /\ toDelete = {}
    /\ swState' = "activated"
    /\ UNCHANGED <<cacheNames, cacheEntries, toDelete, deletedCaches, fetchEvents, pendingPuts>>
    /\ SwUnchangedOthers

\* a page makes a request; the browser hands fetch events to the activated
\* worker only
FetchEvent ==
    /\ swState = "activated"
    /\ \E i \in FetchSlots, url \in RequestUrls, method \in {"GET", "POST"},
          sameOrigin \in BOOLEAN, mode \in {"navigate", "cors"} :
          /\ fetchEvents[i].pc = "idle"
          /\ LET ev == [IdleEvent EXCEPT !.url = url, !.method = method,
                                         !.sameOrigin = sameOrigin, !.mode = mode]
             IN fetchEvents' = [fetchEvents EXCEPT ![i] =
                    IF intercepts(method, sameOrigin)
                    THEN [ev EXCEPT !.pc = "match"]
                    ELSE [ev EXCEPT !.pc = "done", !.answer = [from |-> "browser", what |-> ""]]]
    /\ UNCHANGED <<cacheNames, cacheEntries, swState, toDelete, deletedCaches, pendingPuts>>
    /\ SwUnchangedOthers

MatchResolves ==
    /\ \E i \in FetchSlots :
          /\ fetchEvents[i].pc = "match"
          /\ fetchEvents' = [fetchEvents EXCEPT ![i] = onMatch(@, cachesMatch(@.url))]
    /\ UNCHANGED <<cacheNames, cacheEntries, swState, toDelete, deletedCaches, pendingPuts>>
    /\ SwUnchangedOthers

\* fetch(event.request) resolves with a response
NetworkResponds ==
    /\ \E i \in FetchSlots, kind \in ResponseKinds :
          /\ fetchEvents[i].pc = "fetch"
          /\ fetchEvents' = [fetchEvents EXCEPT ![i] = onResponse(@, kind)]
          /\ pendingPuts' = IF cacheable(kind)
                            THEN pendingPuts \cup {fetchEvents[i].url}
                            ELSE pendingPuts
    /\ UNCHANGED <<cacheNames, cacheEntries, swState, toDelete, deletedCaches>>
    /\ SwUnchangedOthers

\* fetch(event.request) rejects
NetworkFails ==
    /\ \E i \in FetchSlots :
          /\ fetchEvents[i].pc = "fetch"
          /\ fetchEvents' = [fetchEvents EXCEPT ![i] = onNetworkError(@)]
    /\ UNCHANGED <<cacheNames, cacheEntries, swState, toDelete, deletedCaches, pendingPuts>>
    /\ SwUnchangedOthers

OfflineMatchResolves ==
    /\ \E i \in FetchSlots :
          /\ fetchEvents[i].pc = "offline"
          /\ fetchEvents' = [fetchEvents EXCEPT ![i] = onOfflineMatch(@, cachesMatch("/offline.html"))]
    /\ UNCHANGED <<cacheNames, cacheEntries, swState, toDelete, deletedCaches, pendingPuts>>
    /\ SwUnchangedOthers

\* caches.open(CACHE_NAME).then(cache => cache.put(request, responseToCache))
CachePut ==
    /\ \E url \in pendingPuts :
          /\ pendingPuts' = pendingPuts \ {url}
          /\ cacheNames' = cacheNames \cup {CACHE_NAME}
          /\ cacheEntries' = [cacheEntries EXCEPT ![CACHE_NAME] = @ \cup {url}]
    /\ UNCHANGED <<swState, toDelete, deletedCaches, fetchEvents>>
    /\ SwUnchangedOthers

\* the page has received the answer
FetchFinished ==
    /\ \E i \in FetchSlots :
          /\ fetchEvents[i].pc = "done"
          /\ fetchEvents' = [fetchEvents EXCEPT ![i] = IdleEvent]
    /\ UNCHANGED <<cacheNames, cacheEntries, swState, toDelete, deletedCaches, pendingPuts>>
    /\ SwUnchangedOthers

SwNext ==
    \/ InstallOpens
    \/ InstallAddAll
    \/ ActivateKeys
    \/ ActivateDeletes
    \/ ActivateClaims
    \/ FetchEvent
    \/ MatchResolves
    \/ NetworkResponds
    \/ NetworkFails
    \/ OfflineMatchResolves
    \/ CachePut
    \/ FetchFinished

\* ========================================================================
\* Typing animation (unnamed/part_000) and the reduced-motion handler of
\* accessibility.js
\* ========================================================================
\* the text of the data-typing-text attribute has TextLen characters; the
\* element's textContent is always a prefix of it, given by its length
NoAnimation ==
    [constructed |-> FALSE, currentIndex |-> 0, isDeleting |-> FALSE,
     isComplete |-> FALSE, loop |-> FALSE]

TypingState ==
    [text |-> typingText, body |-> bodyReducedMotion, obs |-> observing,
     stage |-> executionStage, shown |-> executionShown, anim |-> animation,
     start |-> startTimers, type |-> typeTimers, loopT |-> loopTimers,
     cursorT |-> cursorTimers, visible |-> cursorVisible, opacity |-> cursorOpacity,
     restart |-> restartTimers, stopped |-> stopped, exc |-> FALSE]

\* handleReducedMotion(mediaQuery)
handleReducedMotion(s, matches) ==
    IF matches
    THEN [s EXCEPT !.body = TRUE, !.text = TextLen]
    ELSE [s EXCEPT !.body = FALSE]

\* new TypingAnimation(element, {loop: false}): the constructor and init()
newTypingAnimation(s) ==
    [s EXCEPT !.anim = [NoAnimation EXCEPT !.constructed = TRUE],
              !.text = 0,
              !.visible = IF hasCursor THEN FALSE ELSE @,
              !.stopped = FALSE,
              !.start = @ + 1]

\* TypingAnimation.type()
type(s) ==
    IF s.anim.isDeleting
    THEN IF s.anim.currentIndex > 0
         THEN [s EXCEPT !.anim.currentIndex = @ - 1,
                        !.text = s.anim.currentIndex - 1,
                        !.type = @ + 1]
         ELSE [s EXCEPT !.anim.isDeleting = FALSE, !.type = @ + 1]
    ELSE IF s.anim.currentIndex < TextLen
         THEN [s EXCEPT !.anim.currentIndex = @ + 1,
                        !.text = s.anim.currentIndex + 1,
                        !.type = @ + 1]
         ELSE IF s.anim.loop
              THEN [s EXCEPT !.anim.isComplete = TRUE, !.loopT = @ + 1]
              ELSE [s EXCEPT !.anim.isComplete = TRUE,
                             !.cursorT = IF hasCursor THEN @ + 1 ELSE @]

\* the IntersectionObserver callback of initTypingAnimations for an entry
\* with isIntersecting
onIntersecting(s) ==
    IF typingKind = "code-method"
    THEN [newTypingAnimation(s) EXCEPT !.obs = FALSE]
    ELSE IF typingKind = "execution-output"
         THEN IF hasExecutionSection
              THEN [s EXCEPT !.stage = "delay", !.obs = FALSE]
              \* executionSection is null: getAttribute throws a TypeError
              ELSE [s EXCEPT !.exc = TRUE]
         ELSE [newTypingAnimation(s) EXCEPT !.obs = FALSE]

TypingCommit(s, op) ==
    /\ typingText' = s.text
    /\ bodyReducedMotion' = s.body
    /\ observing' = s.obs
    /\ executionStage' = s.stage
    /\ executionShown' = s.shown
    /\ animation' = s.anim
    /\ startTimers' = s.start
    /\ restartTimers' = s.restart
    /\ stopped' = s.stopped
    /\ typeTimers' = s.type
    /\ loopTimers' = s.loopT
    /\ cursorTimers' = s.cursorT
    /\ cursorVisible' = s.visible
    /\ cursorOpacity' = s.opacity
    /\ typingUncaught' = s.exc
    /\ typingLastOp' = op
    /\ UNCHANGED <<typingKind, hasExecutionSection, hasCursor>>
    /\ UNCHANGED <<themeVars, formVars, navVars, swVars, announceVars>>

TypingInit ==
    /\ typingKind \in {"code-method", "execution-output", "default"}
    /\ hasExecutionSection \in BOOLEAN
    /\ (typingKind # "execution-output") => hasExecutionSection = FALSE
    /\ hasCursor \in BOOLEAN
    /\ prefersReducedMotion \in BOOLEAN
    /\ bodyReducedMotion = FALSE
    /\ accessibilityReady = FALSE
    /\ typingReady = FALSE
    /\ observing = FALSE
    /\ typingText \in {0, TextLen}
    /\ executionStage = "none"
    /\ executionShown = FALSE
    /\ animation = NoAnimation
    /\ startTimers = 0
    /\ restartTimers = 0
    /\ stopped = FALSE
    /\ typeTimers = 0
    /\ loopTimers = 0
    /\ cursorTimers = 0
    /\ cursorVisible = TRUE
    /\ cursorOpacity = ""
    /\ typingUncaught = FALSE
    /\ typingLastOp = "none"

\* initReducedMotion: the initial call of handleReducedMotion
InitReducedMotion ==
    /\ ~accessibilityReady
    /\ accessibilityReady' = TRUE
    /\ UNCHANGED <<prefersReducedMotion, typingReady>>
    /\ TypingCommit(handleReducedMotion(TypingState, prefersReducedMotion), "initReducedMotion")

\* the user changes the OS setting; the change listener runs once registered
ReducedMotionChange ==
    /\ prefersReducedMotion' = ~prefersReducedMotion
    /\ UNCHANGED <<accessibilityReady, typingReady>>
    /\ TypingCommit(IF accessibilityReady
                    THEN handleReducedMotion(TypingState, ~prefersReducedMotion)
                    ELSE TypingState, "reducedMotionChange")

\* initTypingAnimations: observer.observe(element)
InitTypingAnimations ==
    /\ ~typingReady
    /\ typingReady' = TRUE
    /\ UNCHANGED <<prefersReducedMotion, accessibilityReady>>
    /\ TypingCommit([TypingState EXCEPT !.obs = TRUE], "initTypingAnimations")

\* the observer reports the element
Intersection ==
    /\ observing
    /\ UNCHANGED <<prefersReducedMotion, accessibilityReady, typingReady>>
    /\ \E isIntersecting \in BOOLEAN :
          TypingCommit(IF isIntersecting THEN onIntersecting(TypingState) ELSE TypingState,
                       IF isIntersecting THEN "intersecting" ELSE "notIntersecting")

\* the executionDelay timer: show the section, then start the 800 ms timer
ExecutionDelayTimerFires ==
    /\ executionStage = "delay"
    /\ UNCHANGED <<prefersReducedMotion, accessibilityReady, typingReady>>
    /\ TypingCommit([TypingState EXCEPT !.shown = TRUE, !.stage = "typing"], "executionDelay")

ExecutionTypingTimerFires ==
    /\ executionStage = "typing"
    /\ UNCHANGED <<prefersReducedMotion, accessibilityReady, typingReady>>
    /\ TypingCommit([newTypingAnimation(TypingState) EXCEPT !.stage = "done"], "executionTyping")

\* the delay timer of init: show the cursor and type the first character
StartTimerFires ==
    /\ startTimers > 0
    /\ UNCHANGED <<prefersReducedMotion, accessibilityReady, typingReady>>
    /\ TypingCommit(type([TypingState EXCEPT !.start = @ - 1,
                                             !.visible = IF hasCursor THEN TRUE ELSE @]),
                    "type")

TypeTimerFires ==
    /\ typeTimers > 0
    /\ UNCHANGED <<prefersReducedMotion, accessibilityReady, typingReady>>
    /\ TypingCommit(type([TypingState EXCEPT !.type = @ - 1]), "type")

CursorTimerFires ==
    /\ cursorTimers > 0
    /\ UNCHANGED <<prefersReducedMotion, accessibilityReady, typingReady>>
    /\ TypingCommit([TypingState EXCEPT !.cursorT = @ - 1, !.opacity = "0"], "hideCursor")

\* TypingAnimation.reset()
reset(s) ==
    [s EXCEPT !.anim.currentIndex = 0, !.anim.isDeleting = FALSE,
              !.anim.isComplete = FALSE, !.text = 0,
              !.opacity = IF hasCursor THEN "1" ELSE @,
              !.stopped = FALSE]

\* TypingAnimation.start()
start(s) == [reset(s) EXCEPT !.restart = @ + 1]

\* TypingAnimation.stop()
stop(s) ==
    [s EXCEPT !.anim.isComplete = TRUE, !.text = TextLen,
              !.opacity = IF hasCursor THEN "0" ELSE @,
              !.stopped = TRUE]

PendingTypingTimers == startTimers + restartTimers + typeTimers + loopTimers + cursorTimers

\* a script calls a method of element.typingAnimation
ResetCall ==
    /\ animation.constructed
    /\ UNCHANGED <<prefersReducedMotion, accessibilityReady, typingReady>>
    /\ TypingCommit(reset(TypingState), "reset")

StartCall ==
    /\ animation.constructed
    /\ PendingTypingTimers < MaxTypingTimers
    /\ UNCHANGED <<prefersReducedMotion, accessibilityReady, typingReady>>
    /\ TypingCommit(start(TypingState), "start")

StopCall ==
    /\ animation.constructed
    /\ UNCHANGED <<prefersReducedMotion, accessibilityReady, typingReady>>
    /\ TypingCommit(stop(TypingState), "stop")

\* the delay timer of start(): type the first character
RestartTimerFires ==
    /\ restartTimers > 0
    /\ UNCHANGED <<prefersReducedMotion, accessibilityReady, typingReady>>
    /\ TypingCommit(type([TypingState EXCEPT !.restart = @ - 1]), "type")

TypingNext ==
    \/ InitReducedMotion
    \/ ReducedMotionChange
    \/ InitTypingAnimations
    \/ Intersection
    \/ ExecutionDelayTimerFires
    \/ ExecutionTypingTimerFires
    \/ StartTimerFires
    \/ TypeTimerFires
    \/ CursorTimerFires
    \/ ResetCall
    \/ StartCall
    \/ StopCall
    \/ RestartTimerFires

\* ========================================================================
\* Screen-reader announcements: initAriaLiveRegions (accessibility.js)
\* ========================================================================
\* the messages of the themechange listener, and one a script passes to
\* announceToScreenReader
AnnounceMessages ==
    {"Theme changed to light mode", "Theme changed to dark mode", "Form submitted"}

\* announceToScreenReader(message): the state is <<text, owner, timers>>
announceToScreenReader(message, n) ==
    <<message, n, Append(clearTimers, n)>>

\* initAriaLiveRegions has created the empty live region
AnnounceInit ==
    /\ liveText = ""
    /\ liveOwner = 0
    /\ clearTimers = <<>>
    /\ announced = 0
    /\ announceLastOp = "none"

AnnounceUnchangedOthers == UNCHANGED <<themeVars, formVars, navVars, swVars, typingVars>>

\* a themechange event reaches the document, or a script calls
\* announceToScreenReader
Announce ==
    /\ announced < MaxAnnouncements
    /\ \E message \in AnnounceMessages :
          LET r == announceToScreenReader(message, announced + 1)
          IN /\ liveText' = r[1]
             /\ liveOwner' = r[2]
             /\ clearTimers' = r[3]
    /\ announced' = announced + 1
    /\ announceLastOp' = "announce"
    /\ AnnounceUnchangedOthers

\* the oldest 1 s timer fires and empties the region
ClearTimerFires ==
    /\ clearTimers # <<>>
    /\ liveText' = ""
    /\ liveOwner' = 0
    /\ clearTimers' = Tail(clearTimers)
    /\ announceLastOp' = "clear"
    /\ UNCHANGED announced
    /\ AnnounceUnchangedOthers

AnnounceNext ==
    \/ Announce
    \/ ClearTimerFires

\* ========================================================================
\* Specifications
\* ========================================================================
vars == <<themeVars, formVars, navVars, swVars, typingVars, announceVars>>

\* Each specification explores one component; the others stay in one initial
\* state.
ThemeIdle == ThemeInit /\ storageAccess = "ok" /\ localStorage[storageKey] = None /\ ~systemDark

FormIdle == FormInit /\ accFirst /\ missing = {}

NavIdle == NavInit /\ accNavFirst

SwIdle == SwInit /\ cacheNames = {}

TypingIdle ==
    /\ TypingInit
    /\ typingKind = "default"
    /\ hasCursor
    /\ ~prefersReducedMotion
    /\ typingText = 0

InitTheme == ThemeInit /\ FormIdle /\ NavIdle /\ SwIdle /\ TypingIdle /\ AnnounceInit

SpecTheme == InitTheme /\ [][ThemeNext]_vars

InitForm == FormInit /\ ThemeIdle /\ NavIdle /\ SwIdle /\ TypingIdle /\ AnnounceInit

SpecForm == InitForm /\ [][FormNext]_vars

\* a pending fetch settles in the end: the browser resolves it with a response
\* or rejects it with a network error
\* For the progress of a submission the form starts as the user has filled it
\* in, and the events are those that touch the submission: submit, reset, the
\* settling of a fetch and the hide timer.
FormLiveNext ==
    \/ SubmitEvent
    \/ ResetEvent
    \/ FetchSettles
    \/ HideTimerFires

InitFormLive == FormFilledIn /\ ThemeIdle /\ NavIdle /\ SwIdle /\ TypingIdle /\ AnnounceInit

SpecFormLive == InitFormLive /\ [][FormLiveNext]_vars /\ WF_vars(FetchSettles)

InitNav == NavInit /\ ThemeIdle /\ FormIdle /\ SwIdle /\ TypingIdle /\ AnnounceInit

SpecNav == InitNav /\ [][NavNext]_vars

InitSw == SwInit /\ ThemeIdle /\ FormIdle /\ NavIdle /\ TypingIdle /\ AnnounceInit

SpecSw == InitSw /\ [][SwNext]_vars

InitTyping == TypingInit /\ ThemeIdle /\ FormIdle /\ NavIdle /\ SwIdle /\ AnnounceInit

SpecTyping == InitTyping /\ [][TypingNext]_vars

InitAnnounce == AnnounceInit /\ ThemeIdle /\ FormIdle /\ NavIdle /\ SwIdle /\ TypingIdle

SpecAnnounce == InitAnnounce /\ [][AnnounceNext]_vars

\* ------------------------------------------------------------------------
\* Properties of ThemeToggle
\* ------------------------------------------------------------------------
\* the theme the page renders: the data-theme attribute, or the OS preference
\* through the prefers-color-scheme stylesheet rules when the attribute is absent
DisplayedTheme == IF dataTheme # None THEN dataTheme ELSE getSystemTheme

StoredPreference == localStorage[storageKey]

\* C1 as stated: in every state after construction in which the storage key is
\* empty, the data-theme attribute equals the OS color-scheme preference.
C1_Stated == (constructed /\ StoredPreference = None) => dataTheme = getSystemTheme

\* C1 amended: when the storage key is empty as the constructor or the OS
\* color-scheme listener runs, that task leaves the data-theme attribute equal
\* to the OS color-scheme preference.
C1_NoPreferenceFollowsSystem ==
    [][(lastOp' \in {"init", "osChange"} /\ StoredPreference = None)
          => dataTheme' = getSystemTheme']_vars

C1_Witness ==
    /\ lastOp = "osChange"
    /\ StoredPreference = None
    /\ Len(lastEvents) = 1
    /\ dataTheme = getSystemTheme

\* C2: with light or dark stored, the constructor sets data-theme to the stored
\* value whatever the OS preference is, and an OS color-scheme change made
\* while it is stored leaves data-theme as it was.
C2_StoredPreferenceWins ==
    [][/\ (lastOp' = "init" /\ StoredPreference \in {LIGHT, DARK})
            => dataTheme' = StoredPreference
       /\ (lastOp' = "osChange" /\ StoredPreference \in {LIGHT, DARK})
            => dataTheme' = dataTheme]_vars

C2_Witness ==
    /\ lastOp = "osChange"
    /\ StoredPreference = LIGHT
    /\ systemDark
    /\ dataTheme = LIGHT

\* C3: a click on a toggle control or Ctrl+Shift+T turns a displayed light
\* theme into dark and a displayed dark theme into light, and with writable
\* storage the stored preference is then the displayed theme.
C3_ToggleFlipsAndPersists ==
    [][lastOp' \in {"click", "shortcut"}
          => /\ DisplayedTheme \in {LIGHT, DARK}
             /\ DisplayedTheme' \in {LIGHT, DARK}
             /\ DisplayedTheme' # DisplayedTheme
             /\ dataTheme' = DisplayedTheme'
             /\ storageAccess = "ok" => StoredPreference' = DisplayedTheme']_vars

C3_Witness ==
    /\ lastOp = "shortcut"
    /\ storageAccess = "ok"
    /\ dataTheme = DARK
    /\ StoredPreference = DARK

\* C4: after construction every toggle control has aria-pressed "true" exactly
\* when the displayed theme is dark, and all controls carry the same
\* aria-pressed and aria-label.
C4_AriaMatchesDisplayedTheme ==
    constructed =>
        /\ \A b \in Buttons : (ariaPressed[b] = "true") <=> (DisplayedTheme = DARK)
        /\ \A b, c \in Buttons : ariaPressed[b] = ariaPressed[c] /\ ariaLabel[b] = ariaLabel[c]

\* C5: when every storage read and write throws, no task lets an exception
\* escape, the constructor completes, and after the constructor and after every
\* OS color-scheme change data-theme equals the OS preference.
C5_StorageFailureDegradesToSystem ==
    storageAccess = "denied" =>
        /\ ~uncaught
        /\ lastOp = "init" => constructed
        /\ lastOp \in {"init", "osChange"} => dataTheme = getSystemTheme

C5_Witness ==
    /\ storageAccess = "denied"
    /\ lastOp = "osChange"
    /\ systemDark
    /\ dataTheme = DARK
    /\ ~uncaught

\* the task applied a theme
AppliesTheme(op, arg) ==
    \/ op \in {"init", "click", "shortcut"}
    \/ op = "setTheme" /\ arg \in themes

\* C6: each applyTheme of a task dispatches one themechange event carrying the
\* applied theme, dispatched when the root attribute and the toggle controls
\* already show that theme; the constructor, a toggle and an accepted setTheme
\* apply exactly once, an OS change at most once; setTheme with another value
\* dispatches nothing and leaves the root attribute and storage alone.
C6_OneEventPerApplication ==
    [][/\ Len(lastEvents') = Len(lastApplied')
       /\ Len(lastApplied') <= 1
       /\ AppliesTheme(lastOp', lastArg') => Len(lastApplied') = 1
       /\ \A i \in 1..Len(lastEvents') :
             LET e == lastEvents'[i]
             IN /\ e.theme = lastApplied'[i]
                /\ e.root = (IF e.theme = AUTO THEN None ELSE e.theme)
                /\ \A b \in Buttons : e.pressed[b] = BoolStr(e.theme = DARK)
       /\ (lastOp' = "setTheme" /\ lastArg' \notin themes)
             => /\ lastEvents' = <<>>
                /\ dataTheme' = dataTheme
                /\ localStorage' = localStorage]_vars

C6_Witness ==
    /\ lastOp = "setTheme"
    /\ lastArg = AUTO
    /\ Len(lastEvents) = 1
    /\ lastEvents[1].theme = AUTO
    /\ lastEvents[1].root = None

\* C7: every value written to local storage is written under the theme key and
\* is "light", "dark" or "auto"; no other key ever receives a value.
C7_OnlyThemeValuesWritten ==
    /\ writes \subseteq ({storageKey} \X themes)
    /\ localStorage[otherKey] = None

C7_Witness ==
    /\ <<storageKey, AUTO>> \in writes
    /\ <<storageKey, DARK>> \in writes
    /\ <<storageKey, LIGHT>> \in writes

\* ------------------------------------------------------------------------
\* Properties of the contact form
\* ------------------------------------------------------------------------
\* the required fields whose value is empty or white space only
BlankFields == {f \in Fields : FieldAttrs[f].required /\ trim(fieldValue[f]) = <<>>}

MarkedInvalid(f) == "error" \in inputClass[f] /\ errorText[f] # <<>>

\* C8 as stated: every submit event that finds a required field empty or
\* white-space-only starts no request and no mailto link and leaves each such
\* field with the error class and a non-empty error message.
C8_Stated ==
    [][(formLastOp' = "submit" /\ BlankFields # {})
          => /\ requests' = requests
             /\ mailtoOpened' = mailtoOpened
             /\ \A f \in BlankFields : MarkedInvalid(f)']_vars

\* C8 amended: the same for every submit event handled while no submission is
\* in flight; the form then stays idle.
C8_BlankFieldBlocksSubmission ==
    [][(formLastOp' = "submit" /\ ~isSubmitting /\ BlankFields # {})
          => /\ requests' = requests
             /\ mailtoOpened' = mailtoOpened
             /\ ~isSubmitting'
             /\ submitPc' = "idle"
             /\ \A f \in BlankFields : MarkedInvalid(f)']_vars

C8_Witness ==
    /\ formLastOp = "submit"
    /\ ~isSubmitting
    /\ submitPc = "idle"
    /\ fieldValue["name"] = <<"J", "o">>
    /\ fieldValue["message"] = <<" ", " ">>
    /\ "error" \in inputClass["message"]
    /\ errorText["message"] = <<"Message", "is required">>
    /\ formStatusText # "Sending your message..."

Failed(r) == r.outcome \in {"notok", "throw"}

\* C9: the requests of a submission go to Formspree first and to the second
\* endpoint only after the first failed; the mailto link is opened only after
\* both failed.
C9_EndpointOrder ==
    /\ Len(requests) <= Len(Services)
    /\ \A i \in 1..Len(requests) : requests[i].service = Services[i]
    /\ \A i \in 1..(Len(requests) - 1) : Failed(requests[i])
    /\ submitPc \in {"fetch1", "fetch2"}
          => requests # <<>> /\ requests[Len(requests)].outcome = "pending"
    /\ mailtoOpened
          => Len(requests) = Len(Services) /\ \A i \in 1..Len(requests) : Failed(requests[i])

C9_Witness ==
    /\ mailtoOpened
    /\ Len(requests) = 2
    /\ requests[1].outcome = "throw"
    /\ requests[2].outcome = "notok"

\* ------------------------------------------------------------------------
\* Properties of the mobile navigation
\* ------------------------------------------------------------------------
MenuOpen == ariaExpanded = "true"

MenuClosed == ariaExpanded = "false" /\ navAriaHidden = "true" /\ bodyOverflow = ""

\* C10: Escape pressed while the menu is open leaves it closed (aria-expanded
\* "false", aria-hidden "true", body scroll restored), also within the 300 ms
\* that follow the opening click.
C10_EscapeClosesMenu ==
    [][(navLastOp' = "escape" /\ MenuOpen) => MenuClosed']_vars

C12_CacheFirst ==
    [][\A i \in FetchSlots :
          /\ (fetchEvents[i].pc = "match" /\ cachesMatch(fetchEvents[i].url)
                /\ fetchEvents'[i] # fetchEvents[i])
                => /\ fetchEvents'[i].answer = [from |-> "cache", what |-> fetchEvents[i].url]
                   /\ fetchEvents'[i].net = "none"
          /\ (fetchEvents[i].net = "none" /\ fetchEvents'[i].net # "none")
                => /\ intercepts(fetchEvents[i].method, fetchEvents[i].sameOrigin)
                   /\ ~cachesMatch(fetchEvents[i].url)]_vars

C12_Witness ==
    \E i \in FetchSlots :
        /\ fetchEvents[i].pc = "done"
        /\ fetchEvents[i].answer = [from |-> "cache", what |-> "/about/"]
        /\ fetchEvents[i].net = "none"

\* C13: a navigation request that missed the cache and whose network fetch
\* failed is answered with the cached /offline.html, and from the end of the
\* install step on the current cache holds /offline.html.
C13_OfflineFallback ==
    /\ \A i \in FetchSlots :
          (fetchEvents[i].pc = "done" /\ fetchEvents[i].mode = "navigate"
             /\ fetchEvents[i].net = "failed")
          => fetchEvents[i].answer = [from |-> "cache", what |-> "/offline.html"]
    /\ swState \in {"installed", "activating", "activated"}
          => (CACHE_NAME \in cacheNames /\ "/offline.html" \in cacheEntries[CACHE_NAME])

C13_Witness ==
    \E i \in FetchSlots :
        /\ fetchEvents[i].pc = "done"
        /\ fetchEvents[i].mode = "navigate"
        /\ fetchEvents[i].url = "/about/"
        /\ fetchEvents[i].net = "failed"
        /\ fetchEvents[i].answer.from = "cache"

\* C14: once the activate step is complete no cache other than CACHE_NAME
\* exists, and the worker never asks to delete CACHE_NAME.
C14_OnlyCurrentCache ==
    /\ swState = "activated" => cacheNames \subseteq {CACHE_NAME}
    /\ CACHE_NAME \notin deletedCaches

C14_Witness ==
    /\ swState = "activated"
    /\ deletedCaches # {}
    /\ cacheNames = {CACHE_NAME}

\* ------------------------------------------------------------------------
\* Properties of the typing animation
\* ------------------------------------------------------------------------
\* C15: while the user prefers reduced motion and the reduced-motion handler
\* is installed, the [data-typing-text] element shows its full text, whatever
\* the typing animation does.
C15_ReducedMotionShowsFullText ==
    (accessibilityReady /\ prefersReducedMotion) => typingText = TextLen

\* ------------------------------------------------------------------------
\* Properties of the contact form: submission
\* ------------------------------------------------------------------------
Accepted == requests # <<>> /\ requests[Len(requests)].outcome = "ok"

SuccessShown == {"show", "success"} \subseteq formStatusClass /\ formStatusText # ""

\* C16: when submitForm has finished a submission that an endpoint accepted,
\* the status element carries the classes "show" and "success" and a
\* non-empty text.
C16_SuccessStatusAfterAccepted ==
    (formLastOp = "settle" /\ submitPc = "idle" /\ Accepted /\ HasElement("formStatus"))
        => SuccessShown

\* C17: when the submit button is absent, submitForm does not throw and does
\* not leave isSubmitting true.
C17_AbsentButtonNotStuck ==
    ~HasElement("submitButton") => (submitPc # "threw" /\ (submitPc \notin {"fetch1", "fetch2"} => ~isSubmitting))

\* C19: the status element shows a success status only when an endpoint has
\* returned an ok response for the submission.
C19_SuccessOnlyAfterOk == SuccessShown => Accepted

PendingRequests == {n \in 1..Len(requests) : requests[n].outcome = "pending"}

\* the marks ContactFormValidator's validation leaves on a field: the error
\* message and its classes, and the class "valid" of the input
ValidatorMarks == <<errorText, errorClass, [f \in Fields |-> "valid" \in inputClass[f]]>>

C18_InitAndOsChangeDoNotWrite ==
    [][lastOp' \in {"init", "osChange"}
          => localStorage'[storageKey] = localStorage[storageKey]]_vars

FormIdleAgain == ~isSubmitting /\ ~buttonDisabled /\ buttonLabel = "SubmitMessage"

\* C21: a submission that submitForm has started on a form with its submit
\* button leads to a state where isSubmitting is false and the button is
\* enabled and carries its original label, whatever the endpoints answer.
C21_SubmissionReturnsToIdle ==
    (isSubmitting /\ HasElement("submitButton")) ~> FormIdleAgain

C21_Witness ==
    /\ formLastOp = "settle"
    /\ FormIdleAgain
    /\ Len(requests) = 2
    /\ requests[1].outcome = "throw"
    /\ requests[2].outcome = "notok"
    /\ mailtoOpened

\* ------------------------------------------------------------------------
\* Properties of the mobile navigation: indicators, Escape, delayed focus
\* ------------------------------------------------------------------------
\* C22: aria-expanded is "true" on the toggle exactly when aria-hidden is
\* "false" on the menu, exactly when body overflow is "hidden", exactly when
\* body has the class mobile-nav-open.
C22_IndicatorsAgree ==
    /\ (ariaExpanded = "true") <=> (navAriaHidden = "false")
    /\ (ariaExpanded = "true") <=> (bodyOverflow = "hidden")
    /\ (ariaExpanded = "true") <=> bodyNavOpen

\* C23: Escape pressed while the menu is closed leaves it closed.
C23_EscapeNeverOpens ==
    [][(navLastOp' = "escape" /\ ariaExpanded = "false") => ariaExpanded' = "false"]_vars

\* C24: when a 100 ms focus timer moves focus to the first menu link, the
\* menu is open.
C24_FocusOnlyIntoOpenMenu ==
    navLastOp = "focusTimer" => ariaExpanded = "true"

\* C25: at most one timer that will call type() is pending for the typing
\* animation instance.
C25_OneTimerChain == startTimers + restartTimers + typeTimers + loopTimers <= 1

\* C26: once stop() has been called, a timer callback that runs type() leaves
\* the element showing the full text and isComplete true.
C26_StopIsFinal ==
    [][(stopped /\ typingLastOp' = "type")
          => (typingText' = TextLen /\ animation'.isComplete)]_vars

\* ------------------------------------------------------------------------
\* Properties of the live region
\* ------------------------------------------------------------------------
\* C27: a clear timer empties the live region only when the region holds the
\* announcement that set the timer.
C27_ClearOnlyOwnAnnouncement ==
    [][(announceLastOp' = "clear" /\ liveOwner # 0 /\ Head(clearTimers) # liveOwner)
          => liveText' = liveText]_vars

====
